---- MODULE Spec2Model ----
(***************************************************************************)
(* The measurement-report pages of powermeter-admin: form validation,      *)
(* report query construction, asynchronous response handling and channel   *)
(* name enrichment.  Three variants of the page query                      *)
(* /api/measurements/report: Simple (pages/measurements_simple), the old   *)
(* Home page (pages/Home.tsx) and the later Home page (Home2 below).       *)
(***************************************************************************)
EXTENDS Integers, Sequences, FiniteSets, TLC

VARIABLES
    page,          \* the page variant that is mounted
    measurements,  \* useState([]) : the value given to the DataTable
    channels,      \* useState<ChannelValue[]>([]) : channels of the selected powermeter
    isLoading,     \* useState(false)
    toast,         \* the message shown by the last handler step (Null when it showed none)
    inflight,      \* updateTable calls suspended at "await fetch(path)", in submission order
    chFetches,     \* fetchChannels calls suspended at "await fetch(...)", in start order
    submitted,     \* number of updateTable calls started so far
    done,          \* sequence numbers of the updateTable calls that have finished
    ev,            \* the last handler step: its inputs and the request it issued
    gets,          \* number of fetch(path) calls issued to the report or statistics endpoint
    ipAddress,     \* the value of the ipAddress form field (the dropdown's selection)
    allAvgConsumption,  \* useState(0), statistics page, in units of 1/100000
    allSumConsumption,  \* useState(0), statistics page, in units of 1/100000
    assetName,          \* useState(""), statistics page
    visible,            \* editor pages: the form dialog is open
    confirmDialogVisible,  \* editor pages: the delete confirmation is open
    editedRow,          \* editor pages: the row the form edits
    selectedRow,        \* editor pages: the row selected in the table
    assetNameValue,     \* asset page: useState<AssetNameValue>, the chosen asset name
    requests            \* editor pages: the mutation requests issued so far, in order

\* the ipAddress field before anything is selected (useForm has no default values)
NoSelection == ""

\* the state of the statistics page beside measurements and isLoading
statVars == <<allAvgConsumption, allSumConsumption, assetName>>

\* the state of the editor pages (channels, assets, power meters)
crudVars == <<visible, confirmDialogVisible, editedRow, selectedRow, assetNameValue, requests>>

vars == <<page, measurements, channels, isLoading, toast, inflight, chFetches, submitted, done, ev,
          gets, ipAddress, statVars, crudVars>>

----------------------------------------------------------------------------
(* Bounds of the model *)

FirstYear == 2023
NumYears == 2
MaxInFlight == 2
MaxSubmits == 2
MaxChFetches == 1
MaxRows == 1
MaxChannel == 1
EnrichMaxList == 2    \* longest channel list of the enrichment machine
EnrichMaxRows == 2    \* longest response of the enrichment machine
StatMaxRows == 2      \* longest response of the statistics endpoint
MaxStatSubmits == 2   \* statistics submissions in one behaviour
MaxChannelFetches == 2  \* channel fetches in flight in the selection machine
MaxRowId == 1         \* table rows of the editor pages have ids 0..MaxRowId
MaxEditorSubmits == 1 \* submissions and deletions of one behaviour of an editor page

----------------------------------------------------------------------------
(* JavaScript values *)

\* null
Null == <<>>

\* a JSON array
Arr(rows) == [kind |-> "array", rows |-> rows]

\* a JSON object carrying an err field
ErrObj(text) == [kind |-> "object", err |-> text]

\* Array.isArray(v)
IsArray(v) == v.kind = "array"

\* truthiness of v.err: undefined on an array, and "" is falsy
ErrTruthy(v) == v.kind = "object" /\ v.err # ""

\* String(v) of a nullable number
String(v) == IF v = Null THEN "null" ELSE ToString(v[1])

\* mutant: the comparison as v >= 0
GreaterThanZero_orZero(v) == IF v = Null THEN TRUE ELSE v[1] >= 0

\* v > 0 of a nullable number (null converts to 0)
GreaterThanZero(v) == IF v = Null THEN FALSE ELSE v[1] > 0

----------------------------------------------------------------------------
(* Calendar dates: the Date values of the Calendar inputs, at local midnight *)

IsLeap(y) == (y % 4 = 0 /\ y % 100 # 0) \/ y % 400 = 0

DaysInMonth(y, m) ==
    IF m = 2 THEN (IF IsLeap(y) THEN 29 ELSE 28)
    ELSE IF m \in {4, 6, 9, 11} THEN 30 ELSE 31

\* dayjs(d).get("year")
Year(d) == d.y

\* mutant: the comparison on the year alone
IsBefore_byYear(a, b) == a.y < b.y

\* dayjs(a).isBefore(b)
IsBefore(a, b) ==
    \/ a.y < b.y
    \/ a.y = b.y /\ a.m < b.m
    \/ a.y = b.y /\ a.m = b.m /\ a.d < b.d

\* dayjs(d).add(1, "day")
AddDay(d) ==
    IF d.d < DaysInMonth(d.y, d.m) THEN [y |-> d.y, m |-> d.m, d |-> d.d + 1]
    ELSE IF d.m < 12 THEN [y |-> d.y, m |-> d.m + 1, d |-> 1]
    ELSE [y |-> d.y + 1, m |-> 1, d |-> 1]

Pad2(n) == IF n < 10 THEN "0" \o ToString(n) ELSE ToString(n)

\* dayjs(d).format("YYYY-MM-DD")
Format(d) == ToString(d.y) \o "-" \o Pad2(d.m) \o "-" \o Pad2(d.d)

----------------------------------------------------------------------------
(* The backend, as the pages see it *)

\* useQuery(["power_meter"]) : the powermeters offered by the ip dropdown
\* (the third record has no usable id: PowerMeterValue.id is optional)
PowerMeterValues ==
    << [id |-> 1, ip_address |-> "10.0.0.5"],
       [id |-> 2, ip_address |-> "10.0.0.6"],
       [id |-> 0, ip_address |-> "10.0.0.7"] >>

\* the body of /api/admin/crud/channels?filter={power_meter_id}
ChannelsOf(power_meter_id) ==
    IF power_meter_id = 1
    THEN << [power_meter_id |-> 1, channel |-> 1, channel_name |-> "L1"],
            [power_meter_id |-> 1, channel |-> 2, channel_name |-> "L2"] >>
    ELSE IF power_meter_id = 2
    THEN << [power_meter_id |-> 2, channel |-> 1, channel_name |-> "Main"],
            [power_meter_id |-> 2, channel |-> 1, channel_name |-> "Spare"] >>
    ELSE << >>

\* the rows of a report response (RecElement, before enrichment)
RecElements == [channel : 1..MaxChannel, diff : {10}]

SeqsUpTo(S, n) == UNION {[1..k -> S] : k \in 0..n}

\* what "await fetch(path); await res.json()" can deliver: an array of rows,
\* an object with an err field, or a rejection (network failure, body not JSON)
ReportBodies ==
    {Arr(rows) : rows \in SeqsUpTo(RecElements, MaxRows)}
        \cup {ErrObj("device offline"), ErrObj("")}
        \cup {[kind |-> "reject"]}

----------------------------------------------------------------------------
(* Form input that passes the zod schema *)

Years == FirstYear..(FirstYear + NumYears - 1)

Dates ==
    {d \in [y : Years, m : {2, 12}, d : {1, 28, 29, 31}] : d.d <= DaysInMonth(d.y, d.m)}

Details == {"hourly", "daily", "monthly"}

IpAddresses == {PowerMeterValues[i].ip_address : i \in DOMAIN PowerMeterValues}

NullableNumbers(S) == {Null} \cup {<<n>> : n \in S}

\* every schema-valid FormValue over the bounded field values
FormValues ==
    [fromDate : Dates, toDate : Dates, ipAddress : IpAddresses,
     channel : NullableNumbers({-1, 0, 1, 2}), details : Details,
     multiplier : NullableNumbers({2})]

\* the inputs of the page machine: February of each year, daily or monthly, and
\* two monthly ranges of the first year, one ending a year later and one inverted
PageFormValues ==
    {[fromDate |-> [y |-> yr, m |-> 2, d |-> 1], toDate |-> [y |-> yr, m |-> 2, d |-> 28],
      ipAddress |-> "10.0.0.5", channel |-> <<-1>>, details |-> dt, multiplier |-> Null] :
        yr \in Years, dt \in {"daily", "monthly"}}
    \cup
    {[fromDate |-> [y |-> FirstYear, m |-> 2, d |-> 1],
      toDate |-> [y |-> FirstYear + 1, m |-> 2, d |-> 28],
      ipAddress |-> "10.0.0.5", channel |-> <<-1>>, details |-> "monthly", multiplier |-> Null],
     [fromDate |-> [y |-> FirstYear, m |-> 2, d |-> 28],
      toDate |-> [y |-> FirstYear, m |-> 2, d |-> 1],
      ipAddress |-> "10.0.0.5", channel |-> <<-1>>, details |-> "monthly", multiplier |-> Null]}

\* a form field that was never filled
Undefined == [undefined |-> TRUE]

\* what the form can hold when it is submitted without passing the schema: a
\* date or the details may be missing, the address may be no IPv4 address
RawFormValues ==
    {[fromDate |-> f, toDate |-> t, ipAddress |-> a, channel |-> <<-1>>, details |-> dt,
      multiplier |-> Null] :
        f \in {Undefined, [y |-> FirstYear, m |-> 2, d |-> 1]},
        t \in {Undefined, [y |-> FirstYear, m |-> 2, d |-> 28]},
        a \in {"10.0.0.5", "", "10.0.0", "999.0.0.1"},
        dt \in {"", "monthly"}}

\* z.string().ip("v4") on the address texts of the model
IsIpV4(text) == text \in {"10.0.0.5", "10.0.0.6", "10.0.0.7"}

\* the fields the zod schema rejects (zodResolver's errors)
Schema_errors(raw) ==
    (IF raw.fromDate = Undefined THEN {"fromDate"} ELSE {})
        \cup (IF raw.toDate = Undefined THEN {"toDate"} ELSE {})
        \cup (IF raw.ipAddress = "" \/ ~IsIpV4(raw.ipAddress) THEN {"ipAddress"} ELSE {})
        \cup (IF raw.details = "" THEN {"details"} ELSE {})

----------------------------------------------------------------------------
(* Messages *)

Error(text) == <<"error", text>>

MsgGranularity == "Details must be monthly when required year less then current year."
MsgSameYear == "'From date' and 'To date' must be in same year."
MsgInverted == "To date must be greater then from date."
MsgGranularityHome == "Details must be monthly when required year less then current year"
MsgFillForm == "Please fill form as needed. Read tooltips on red marked fields."

----------------------------------------------------------------------------
(* Report query: the list of key=value pairs after the "?" *)

Simple_path(params) ==
    << <<"fromdate", Format(params.fromDate)>>,
       <<"todate", Format(AddDay(params.toDate))>>,
       <<"ip", params.ipAddress>>,
       <<"details", params.details>>,
       <<"multiplier", String(params.multiplier)>> >>
    \o (IF GreaterThanZero(params.channel)
        THEN << <<"channel", String(params.channel)>> >> ELSE << >>)

Home_path(params) ==
    << <<"fromdate", Format(params.fromDate)>>,
       <<"todate", Format(params.toDate)>>,
       <<"ip", params.ipAddress>>,
       <<"details", params.details>> >>
    \o (IF GreaterThanZero(params.channel)
        THEN << <<"channel", String(params.channel)>> >> ELSE << >>)

Home2_path(params) ==
    << <<"fromdate", Format(params.fromDate)>>,
       <<"todate", Format(AddDay(params.toDate))>>,
       <<"ip", params.ipAddress>>,
       <<"details", params.details>>,
       <<"multiplier", String(params.multiplier)>> >>
    \o (IF GreaterThanZero(params.channel)
        THEN << <<"channel", String(params.channel)>> >> ELSE << >>)

----------------------------------------------------------------------------
(* Enrichment *)

\* channels.filter((ch) => ch.channel === records.channel)
ChannelNames(chs, records) == SelectSeq(chs, LAMBDA ch : ch.channel = records.channel)

\* mutant: the last entry with the row's channel number gives the name
SetChannelName_lastMatch(chs, records) ==
    IF Len(ChannelNames(chs, records)) > 0
    THEN [f \in DOMAIN records \cup {"channel_name"} |->
            IF f = "channel_name"
            THEN ChannelNames(chs, records)[Len(ChannelNames(chs, records))].channel_name
            ELSE records[f]]
    ELSE records

\* mutant: the page computes multipliedValue itself, with a multiplier of 2
SetChannelName_multiplies(chs, records) ==
    LET named == IF Len(ChannelNames(chs, records)) > 0
                 THEN [f \in DOMAIN records \cup {"channel_name"} |->
                         IF f = "channel_name" THEN ChannelNames(chs, records)[1].channel_name
                         ELSE records[f]]
                 ELSE records
    IN [f \in DOMAIN named \cup {"multipliedValue"} |->
          IF f = "multipliedValue" THEN 2 * records.diff ELSE named[f]]

\* records.channel_name = channel_names[0].channel_name, when there is a match
SetChannelName(chs, records) ==
    IF Len(ChannelNames(chs, records)) > 0
    THEN [f \in DOMAIN records \cup {"channel_name"} |->
            IF f = "channel_name" THEN ChannelNames(chs, records)[1].channel_name
            ELSE records[f]]
    ELSE records

\* mutant: rows without a matching channel are left out
Enrich_matchedOnly(chs, rows) ==
    SelectSeq([i \in 1..Len(rows) |-> SetChannelName(chs, rows[i])],
              LAMBDA r : "channel_name" \in DOMAIN r)

\* values.forEach(...) over the rows of an array
Enrich(chs, rows) == [i \in 1..Len(rows) |-> SetChannelName(chs, rows[i])]

RemoveAt(s, i) == SubSeq(s, 1, i - 1) \o SubSeq(s, i + 1, Len(s))

----------------------------------------------------------------------------
(* Initial state: a page has been mounted *)

Pages == {"Simple", "Home", "Home2"}

\* the editor state of a page that has no editor
NoEditor ==
    /\ visible = FALSE
    /\ confirmDialogVisible = FALSE
    /\ editedRow = Undefined
    /\ selectedRow = Undefined
    /\ assetNameValue = Undefined
    /\ requests = << >>

Init ==
    /\ page \in Pages
    /\ measurements = Arr(<< >>)
    /\ channels = << >>
    /\ isLoading = FALSE
    /\ toast = Null
    /\ inflight = << >>
    /\ chFetches = << >>
    /\ submitted = 0
    /\ done = {}
    /\ ev = [op |-> "mount"]
    /\ gets = 0
    /\ ipAddress = NoSelection
    /\ allAvgConsumption = 0
    /\ allSumConsumption = 0
    /\ assetName = ""
    /\ NoEditor

----------------------------------------------------------------------------
(* updateTable up to "await fetch(path)": the request is issued and the call *)
(* is suspended holding the channels of the render that created it           *)

Simple_updateTable(params) ==
    /\ measurements' = Arr(<< >>)
    /\ isLoading' = TRUE
    /\ inflight' = Append(inflight, [seq |-> submitted + 1, channels |-> channels,
                                     multiplier |-> params.multiplier,
                                     ip |-> params.ipAddress])
    /\ submitted' = submitted + 1
    /\ gets' = gets + 1

Home_updateTable(params) ==
    /\ isLoading' = TRUE
    /\ inflight' = Append(inflight, [seq |-> submitted + 1, channels |-> channels,
                                     multiplier |-> Null,
                                     ip |-> params.ipAddress])
    /\ submitted' = submitted + 1
    /\ gets' = gets + 1
    /\ UNCHANGED measurements

Home2_updateTable(params) ==
    /\ isLoading' = TRUE
    /\ inflight' = Append(inflight, [seq |-> submitted + 1, channels |-> channels,
                                     multiplier |-> params.multiplier,
                                     ip |-> params.ipAddress])
    /\ submitted' = submitted + 1
    /\ gets' = gets + 1
    /\ UNCHANGED measurements

----------------------------------------------------------------------------
(* onSubmit: the checks on a schema-valid form, then updateTable *)

\* mutant: the inverted-range check made first
Simple_onSubmit_error_invertedFirst(data, now) ==
    IF IsBefore(data.toDate, data.fromDate) THEN Error(MsgInverted)
    ELSE IF Year(data.fromDate) < now /\ data.details # "monthly" THEN Error(MsgGranularity)
    ELSE IF Year(data.toDate) # Year(data.fromDate) THEN Error(MsgSameYear)
    ELSE Null

\* mutant: the inverted-range check made before the same-year check
Simple_onSubmit_error_rangeFirst(data, now) ==
    IF Year(data.fromDate) < now /\ data.details # "monthly" THEN Error(MsgGranularity)
    ELSE IF IsBefore(data.toDate, data.fromDate) THEN Error(MsgInverted)
    ELSE IF Year(data.toDate) # Year(data.fromDate) THEN Error(MsgSameYear)
    ELSE Null

\* mutant: the granularity check made on the year of toDate
Simple_onSubmit_error_toDate(data, now) ==
    IF Year(data.toDate) < now /\ data.details # "monthly" THEN Error(MsgGranularity)
    ELSE IF Year(data.toDate) # Year(data.fromDate) THEN Error(MsgSameYear)
    ELSE IF IsBefore(data.toDate, data.fromDate) THEN Error(MsgInverted)
    ELSE Null

\* the toast of the first failing check of the if-chain, Null when the
\* chain reaches updateTable
Simple_onSubmit_error(data, now) ==
    IF Year(data.fromDate) < now /\ data.details # "monthly" THEN Error(MsgGranularity)
    ELSE IF Year(data.toDate) # Year(data.fromDate) THEN Error(MsgSameYear)
    ELSE IF IsBefore(data.toDate, data.fromDate) THEN Error(MsgInverted)
    ELSE Null

Home_onSubmit_error(data, now) ==
    IF Year(data.fromDate) < now /\ data.details # "monthly" THEN Error(MsgGranularityHome)
    ELSE Null

Home2_onSubmit_error(data, now) ==
    IF Year(data.fromDate) < now /\ data.details # "monthly" THEN Error(MsgGranularity)
    ELSE IF Year(data.toDate) # Year(data.fromDate) THEN Error(MsgSameYear)
    ELSE IF IsBefore(data.toDate, data.fromDate) THEN Error(MsgInverted)
    ELSE Null

\* mutant: the message names the field that failed
Simple_onSubmitError_message_byField(errors) ==
    IF "ipAddress" \in errors THEN "Invalid IP address." ELSE MsgFillForm

\* onSubmitError shows one message whatever the field errors are
Simple_onSubmitError_message(errors) == MsgFillForm

\* handleSubmit(onSubmit, onSubmitError) with form values the schema rejects
Simple_onSubmitError(raw) ==
    /\ page = "Simple"
    /\ Schema_errors(raw) # {}
    /\ toast' = Error(Simple_onSubmitError_message(Schema_errors(raw)))
    /\ ev' = [op |-> "onSubmitError", errors |-> Schema_errors(raw)]
    /\ UNCHANGED <<crudVars, page, measurements, channels, isLoading, inflight, chFetches, submitted,
                   done, gets, ipAddress, statVars>>

\* mutant: the table is cleared before the rules are checked
Simple_onSubmit_clearsFirst(data, now) ==
    /\ page = "Simple"
    /\ IF Simple_onSubmit_error(data, now) # Null
       THEN /\ toast' = Simple_onSubmit_error(data, now)
            /\ ev' = [op |-> "onSubmit", data |-> data, now |-> now, get |-> Null]
            /\ measurements' = Arr(<< >>)
            /\ UNCHANGED <<isLoading, inflight, submitted, gets>>
       ELSE /\ Simple_updateTable(data)
            /\ toast' = Null
            /\ ev' = [op |-> "onSubmit", data |-> data, now |-> now,
                      get |-> Simple_path(data)]
    /\ UNCHANGED <<crudVars, page, channels, chFetches, done, ipAddress, statVars>>

Simple_onSubmit(data, now) ==
    /\ page = "Simple"
    /\ IF Simple_onSubmit_error(data, now) # Null
       THEN /\ toast' = Simple_onSubmit_error(data, now)
            /\ ev' = [op |-> "onSubmit", data |-> data, now |-> now, get |-> Null]
            /\ UNCHANGED <<measurements, isLoading, inflight, submitted, gets>>
       ELSE /\ Simple_updateTable(data)
            /\ toast' = Null
            /\ ev' = [op |-> "onSubmit", data |-> data, now |-> now,
                      get |-> Simple_path(data)]
    /\ UNCHANGED <<crudVars, page, channels, chFetches, done, ipAddress, statVars>>

Home_onSubmit(data, now) ==
    /\ page = "Home"
    /\ IF Home_onSubmit_error(data, now) # Null
       THEN /\ toast' = Home_onSubmit_error(data, now)
            /\ ev' = [op |-> "onSubmit", data |-> data, now |-> now, get |-> Null]
            /\ UNCHANGED <<measurements, isLoading, inflight, submitted, gets>>
       ELSE /\ Home_updateTable(data)
            /\ toast' = Null
            /\ ev' = [op |-> "onSubmit", data |-> data, now |-> now,
                      get |-> Home_path(data)]
    /\ UNCHANGED <<crudVars, page, channels, chFetches, done, ipAddress, statVars>>

Home2_onSubmit(data, now) ==
    /\ page = "Home2"
    /\ IF Home2_onSubmit_error(data, now) # Null
       THEN /\ toast' = Home2_onSubmit_error(data, now)
            /\ ev' = [op |-> "onSubmit", data |-> data, now |-> now, get |-> Null]
            /\ UNCHANGED <<measurements, isLoading, inflight, submitted, gets>>
       ELSE /\ Home2_updateTable(data)
            /\ toast' = Null
            /\ ev' = [op |-> "onSubmit", data |-> data, now |-> now,
                      get |-> Home2_path(data)]
    /\ UNCHANGED <<crudVars, page, channels, chFetches, done, ipAddress, statVars>>

----------------------------------------------------------------------------
(* updateTable after "await fetch(path)" and "await res.json()": call i of   *)
(* inflight is resumed with the outcome body                                 *)

\* mutant: an empty array reported as an error
Simple_resume_message_emptyIsError(body) ==
    IF ErrTruthy(body) THEN Error(body.err)
    ELSE IF IsArray(body) /\ Len(body.rows) = 0 THEN Error("No data")
    ELSE Null

\* the message shown for a parsed body: String(values.err) when values.err is truthy
Simple_resume_message(body) ==
    IF ErrTruthy(body) THEN Error(body.err) ELSE Null

\* the value handed to setMeasurements for a parsed body
Simple_resume_values(chs, body) ==
    IF ErrTruthy(body) THEN Arr(<< >>)
    ELSE IF IsArray(body) /\ Len(body.rows) > 0 THEN Arr(Enrich(chs, body.rows))
    ELSE body

\* mutant: a failed fetch is retried once more
Simple_updateTable_resume_retry(i, body) ==
    /\ page = "Simple"
    /\ i \in DOMAIN inflight
    /\ ev' = [op |-> "updateTable", seq |-> inflight[i].seq, body |-> body,
              channels |-> inflight[i].channels, multiplier |-> inflight[i].multiplier,
              ip |-> inflight[i].ip]
    /\ IF body.kind = "reject"
       THEN /\ toast' = Null
            /\ inflight' = Append(RemoveAt(inflight, i), inflight[i])
            /\ gets' = gets + 1
            /\ UNCHANGED <<measurements, isLoading, done>>
       ELSE /\ isLoading' = FALSE
            /\ inflight' = RemoveAt(inflight, i)
            /\ done' = done \cup {inflight[i].seq}
            /\ toast' = Simple_resume_message(body)
            /\ measurements' = Simple_resume_values(inflight[i].channels, body)
            /\ UNCHANGED gets
    /\ UNCHANGED <<crudVars, page, channels, chFetches, submitted, ipAddress, statVars>>

\* mutant: a response is applied only when no later submission has been handled
Simple_updateTable_resume_latestOnly(i, body) ==
    /\ page = "Simple"
    /\ i \in DOMAIN inflight
    /\ inflight' = RemoveAt(inflight, i)
    /\ done' = done \cup {inflight[i].seq}
    /\ ev' = [op |-> "updateTable", seq |-> inflight[i].seq, body |-> body,
              channels |-> inflight[i].channels, multiplier |-> inflight[i].multiplier,
              ip |-> inflight[i].ip]
    /\ IF body.kind = "reject"
       THEN /\ toast' = Null
            /\ UNCHANGED <<measurements, isLoading>>
       ELSE /\ isLoading' = FALSE
            /\ toast' = Simple_resume_message(body)
            /\ measurements' =
                 IF \E k \in done : k > inflight[i].seq THEN measurements
                 ELSE Simple_resume_values(inflight[i].channels, body)
    /\ UNCHANGED <<crudVars, page, channels, chFetches, submitted, gets, ipAddress, statVars>>

Simple_updateTable_resume(i, body) ==
    /\ page = "Simple"
    /\ i \in DOMAIN inflight
    /\ inflight' = RemoveAt(inflight, i)
    /\ done' = done \cup {inflight[i].seq}
    /\ ev' = [op |-> "updateTable", seq |-> inflight[i].seq, body |-> body,
              channels |-> inflight[i].channels, multiplier |-> inflight[i].multiplier,
              ip |-> inflight[i].ip]
    /\ IF body.kind = "reject"
       THEN /\ toast' = Null
            /\ UNCHANGED <<measurements, isLoading>>
       ELSE /\ isLoading' = FALSE
            /\ toast' = Simple_resume_message(body)
            /\ measurements' = Simple_resume_values(inflight[i].channels, body)
    /\ UNCHANGED <<crudVars, page, channels, chFetches, submitted, gets, ipAddress, statVars>>

Home_updateTable_resume(i, body) ==
    /\ page = "Home"
    /\ i \in DOMAIN inflight
    /\ inflight' = RemoveAt(inflight, i)
    /\ done' = done \cup {inflight[i].seq}
    /\ ev' = [op |-> "updateTable", seq |-> inflight[i].seq, body |-> body,
              channels |-> inflight[i].channels, multiplier |-> inflight[i].multiplier,
              ip |-> inflight[i].ip]
    /\ toast' = Null
    /\ IF body.kind = "reject"
       THEN UNCHANGED <<measurements, isLoading>>
       ELSE /\ isLoading' = FALSE
            /\ IF IsArray(body)
               THEN measurements' = Arr(Enrich(inflight[i].channels, body.rows))
               ELSE UNCHANGED measurements    \* values.forEach is not a function
    /\ UNCHANGED <<crudVars, page, channels, chFetches, submitted, gets, ipAddress, statVars>>

Home2_updateTable_resume(i, body) ==
    /\ page = "Home2"
    /\ i \in DOMAIN inflight
    /\ inflight' = RemoveAt(inflight, i)
    /\ done' = done \cup {inflight[i].seq}
    /\ ev' = [op |-> "updateTable", seq |-> inflight[i].seq, body |-> body,
              channels |-> inflight[i].channels, multiplier |-> inflight[i].multiplier,
              ip |-> inflight[i].ip]
    /\ IF body.kind = "reject"
       THEN /\ toast' = Null
            /\ UNCHANGED <<measurements, isLoading>>
       ELSE /\ isLoading' = FALSE
            /\ IF ErrTruthy(body)
               THEN /\ toast' = Error(body.err)
                    /\ measurements' = Arr(<< >>)
               ELSE /\ toast' = Null
                    /\ measurements' =
                         IF IsArray(body) /\ Len(body.rows) > 0
                         THEN Arr(Enrich(inflight[i].channels, body.rows))
                         ELSE body
    /\ UNCHANGED <<crudVars, page, channels, chFetches, submitted, gets, ipAddress, statVars>>

----------------------------------------------------------------------------
(* The powermeter dropdown and fetchChannels *)

\* power_meterValues.filter((item) => item.ip_address === event.target.value)
PowermeterOf(ip) == SelectSeq(PowerMeterValues, LAMBDA item : item.ip_address = ip)

\* fetchChannels(powermeter[0].id) is called: a record was found and its id is truthy
Simple_fetches(ip) == Len(PowermeterOf(ip)) > 0 /\ PowermeterOf(ip)[1].id # 0

\* the old Home page does not look at the id
Home_fetches(ip) == Len(PowermeterOf(ip)) > 0

\* Simple: onChange of the ipAddress dropdown up to "await fetchChannels(...)";
\* field.onChange runs after the await, at once when nothing is fetched
Simple_ipAddress_onChange(ip) ==
    /\ page = "Simple"
    /\ IF Simple_fetches(ip)
       THEN /\ chFetches' = Append(chFetches, [id |-> PowermeterOf(ip)[1].id, ip |-> ip])
            /\ UNCHANGED ipAddress
       ELSE /\ ipAddress' = ip
            /\ UNCHANGED chFetches
    /\ toast' = Null
    /\ ev' = [op |-> "onChange", ip |-> ip]
    /\ UNCHANGED <<crudVars, page, measurements, channels, isLoading, inflight, submitted, done, gets, statVars>>

\* Home (old): fetchChannels is started and not awaited, field.onChange runs at once
Home_ipAddress_onChange(ip) ==
    /\ page = "Home"
    /\ chFetches' =
         IF Home_fetches(ip)
         THEN Append(chFetches, [id |-> PowermeterOf(ip)[1].id, ip |-> ip])
         ELSE chFetches
    /\ ipAddress' = ip
    /\ toast' = Null
    /\ ev' = [op |-> "onChange", ip |-> ip]
    /\ UNCHANGED <<crudVars, page, measurements, channels, isLoading, inflight, submitted, done, gets, statVars>>

\* Home (later): fetchChannels is started and not awaited, field.onChange runs at once
Home2_ipAddress_onChange(ip) ==
    /\ page = "Home2"
    /\ chFetches' =
         IF Simple_fetches(ip)
         THEN Append(chFetches, [id |-> PowermeterOf(ip)[1].id, ip |-> ip])
         ELSE chFetches
    /\ ipAddress' = ip
    /\ toast' = Null
    /\ ev' = [op |-> "onChange", ip |-> ip]
    /\ UNCHANGED <<crudVars, page, measurements, channels, isLoading, inflight, submitted, done, gets, statVars>>

\* Simple: fetchChannels after its awaits, setChannels(data), and then the rest
\* of onChange: field.onChange(String(event.target.value))
Simple_fetchChannels_resume(i) ==
    /\ page = "Simple"
    /\ i \in DOMAIN chFetches
    /\ channels' = ChannelsOf(chFetches[i].id)
    /\ ipAddress' = chFetches[i].ip
    /\ chFetches' = RemoveAt(chFetches, i)
    /\ toast' = Null
    /\ ev' = [op |-> "fetchChannels", power_meter_id |-> chFetches[i].id]
    /\ UNCHANGED <<crudVars, page, measurements, isLoading, inflight, submitted, done, gets, statVars>>

\* Home pages: fetchChannels after its awaits: setChannels(data)
fetchChannels_resume(i) ==
    /\ page \in {"Home", "Home2"}
    /\ i \in DOMAIN chFetches
    /\ channels' = ChannelsOf(chFetches[i].id)
    /\ chFetches' = RemoveAt(chFetches, i)
    /\ toast' = Null
    /\ ev' = [op |-> "fetchChannels", power_meter_id |-> chFetches[i].id]
    /\ UNCHANGED <<crudVars, page, measurements, isLoading, inflight, submitted, done, gets, ipAddress, statVars>>

----------------------------------------------------------------------------
(* The page machine: overlapping submissions, responses in any order *)

CurrentYears == Years

\* the selections of the page machine: the powermeters with a usable id
PageIpAddresses == {"10.0.0.5", "10.0.0.6"}

Next ==
    \/ /\ Len(inflight) < MaxInFlight /\ submitted < MaxSubmits
       /\ \E data \in PageFormValues, now \in CurrentYears : Simple_onSubmit(data, now)
    \/ /\ Len(inflight) < MaxInFlight /\ submitted < MaxSubmits
       /\ \E data \in PageFormValues, now \in CurrentYears : Home_onSubmit(data, now)
    \/ /\ Len(inflight) < MaxInFlight /\ submitted < MaxSubmits
       /\ \E data \in PageFormValues, now \in CurrentYears : Home2_onSubmit(data, now)
    \/ \E i \in 1..MaxInFlight, body \in ReportBodies : Simple_updateTable_resume(i, body)
    \/ \E i \in 1..MaxInFlight, body \in ReportBodies : Home_updateTable_resume(i, body)
    \/ \E i \in 1..MaxInFlight, body \in ReportBodies : Home2_updateTable_resume(i, body)
    \/ /\ Len(chFetches) < MaxChFetches
       /\ \E ip \in PageIpAddresses : Simple_ipAddress_onChange(ip)
    \/ /\ Len(chFetches) < MaxChFetches
       /\ \E ip \in PageIpAddresses : Home_ipAddress_onChange(ip)
    \/ /\ Len(chFetches) < MaxChFetches
       /\ \E ip \in PageIpAddresses : Home2_ipAddress_onChange(ip)
    \/ \E i \in 1..MaxChFetches : Simple_fetchChannels_resume(i)
    \/ \E i \in 1..MaxChFetches : fetchChannels_resume(i)

Spec == Init /\ [][Next]_vars

(* The page machine with every fetch settling: a fetch in flight is          *)
(* eventually answered or fails, and its updateTable call then resumes       *)

FetchesSettle ==
    /\ WF_vars(\E i \in 1..MaxInFlight, body \in ReportBodies : Simple_updateTable_resume(i, body))
    /\ WF_vars(\E i \in 1..MaxInFlight, body \in ReportBodies : Home_updateTable_resume(i, body))
    /\ WF_vars(\E i \in 1..MaxInFlight, body \in ReportBodies : Home2_updateTable_resume(i, body))
    /\ WF_vars(\E i \in 1..MaxChFetches : Simple_fetchChannels_resume(i))
    /\ WF_vars(\E i \in 1..MaxChFetches : fetchChannels_resume(i))

SpecLive == Init /\ [][Next]_vars /\ FetchesSettle

(* The submission pipeline over every schema-valid form input: the first     *)
(* submission after the page is mounted, and the handling of its response    *)

NextForm ==
    \/ /\ ev.op = "mount"
       /\ \E data \in FormValues, now \in CurrentYears : Simple_onSubmit(data, now)
    \/ /\ ev.op = "mount"
       /\ \E data \in FormValues, now \in CurrentYears : Home_onSubmit(data, now)
    \/ /\ ev.op = "mount"
       /\ \E data \in FormValues, now \in CurrentYears : Home2_onSubmit(data, now)
    \/ /\ ev.op = "mount"
       /\ \E raw \in RawFormValues : Simple_onSubmitError(raw)
    \/ \E body \in ReportBodies : Simple_updateTable_resume(1, body)
    \/ \E body \in ReportBodies : Home_updateTable_resume(1, body)
    \/ \E body \in ReportBodies : Home2_updateTable_resume(1, body)

SpecForm == Init /\ [][NextForm]_vars

----------------------------------------------------------------------------
(* The enrichment machine: the Simple page holding any channel list, one    *)
(* accepted submission, and its response                                     *)

\* channel lists, with repeated channel numbers among them
EnrichChannels == [power_meter_id : {1}, channel : 1..2, channel_name : {"L1", "L2"}]

\* response rows: channel 3 is on no list; the backend may send multipliedValue
EnrichRows ==
    [channel : 1..3, diff : {10}] \cup [channel : 1..3, diff : {10}, multipliedValue : {20}]

EnrichBodies ==
    {Arr(rows) : rows \in SeqsUpTo(EnrichRows, EnrichMaxRows)} \cup {ErrObj("device offline")}

\* a monthly report of February of the first year, with and without a multiplier
EnrichFormValues ==
    {[fromDate |-> [y |-> FirstYear, m |-> 2, d |-> 1],
      toDate |-> [y |-> FirstYear, m |-> 2, d |-> 28],
      ipAddress |-> "10.0.0.5", channel |-> <<-1>>, details |-> "monthly",
      multiplier |-> mu] : mu \in NullableNumbers({2})}

InitEnrich ==
    /\ page = "Simple"
    /\ measurements = Arr(<< >>)
    /\ channels \in SeqsUpTo(EnrichChannels, EnrichMaxList)
    /\ isLoading = FALSE
    /\ toast = Null
    /\ inflight = << >>
    /\ chFetches = << >>
    /\ submitted = 0
    /\ done = {}
    /\ ev = [op |-> "mount"]
    /\ gets = 0
    /\ ipAddress = "10.0.0.5"
    /\ allAvgConsumption = 0
    /\ allSumConsumption = 0
    /\ assetName = ""
    /\ NoEditor

NextEnrich ==
    \/ /\ submitted = 0
       /\ \E data \in EnrichFormValues, now \in CurrentYears : Simple_onSubmit(data, now)
    \/ \E body \in EnrichBodies : Simple_updateTable_resume(1, body)

SpecEnrich == InitEnrich /\ [][NextEnrich]_vars

----------------------------------------------------------------------------
(* The statistics page: "Statistics" is src/pages/statistics.tsx, and       *)
(* "Statistics0" is the earlier variant of the same page. Consumption       *)
(* values are counted in units of 1/100000.                                  *)

StatPages == {"Statistics", "Statistics0"}

StatisticsFormValues == [assetNameId : NullableNumbers({1}), details : {"daily", "monthly"}]

\* rows of a statistics response; 15 and -15 are exact halves of the fourth decimal
StatisticsRows ==
    { [asset_name |-> "A", avg |-> 15, sum |-> 100000],
      [asset_name |-> "B", avg |-> -15, sum |-> 15],
      [asset_name |-> "A", avg |-> 100000, sum |-> -15],
      [asset_name |-> "B", avg |-> 4, sum |-> -4] }

\* what "await fetch(query)" can deliver: an ok response with an array body, a
\* response that is not ok, or a rejection
StatisticsResponses ==
    {[kind |-> "ok", rows |-> rows] : rows \in SeqsUpTo(StatisticsRows, StatMaxRows)}
        \cup {[kind |-> "notok"], [kind |-> "reject"]}

Statistics_query(data) ==
    << <<"asset_name_id", String(data.assetNameId)>>, <<"details", data.details>> >>

\* let sum = 0; result.forEach((element) => { sum += element.sum; })
RECURSIVE ForEachSum(_)
ForEachSum(result) ==
    IF result = << >> THEN 0
    ELSE ForEachSum(SubSeq(result, 1, Len(result) - 1)) + result[Len(result)].sum

\* mutant: the average of the rows' avg fields
ForEachAvg_mean(result) ==
    LET RECURSIVE Acc(_)
        Acc(r) == IF r = << >> THEN 0 ELSE Acc(SubSeq(r, 1, Len(r) - 1)) + r[Len(r)].avg
    IN IF result = << >> THEN 0 ELSE Acc(result) \div Len(result)

\* let avg = 0; result.forEach((element) => { avg += element.avg; })
ForEachAvg(result) ==
    LET RECURSIVE Acc(_)
        Acc(r) == IF r = << >> THEN 0 ELSE Acc(SubSeq(r, 1, Len(r) - 1)) + r[Len(r)].avg
    IN Acc(result)

\* Math.round(x * 10000) / 10000: Math.round takes an exact half toward +Infinity
Round4(t) == 10 * ((t + 5) \div 10)

InitStat ==
    /\ page \in StatPages
    /\ measurements = Arr(<< >>)
    /\ channels = << >>
    /\ isLoading = FALSE
    /\ toast = Null
    /\ inflight = << >>
    /\ chFetches = << >>
    /\ submitted = 0
    /\ done = {}
    /\ ev = [op |-> "mount"]
    /\ gets = 0
    /\ ipAddress = NoSelection
    /\ allAvgConsumption = 0
    /\ allSumConsumption = 0
    /\ assetName = ""
    /\ NoEditor

\* onSubmit up to "await fetch(query)", the same in both variants
Statistics_onSubmit(data) ==
    /\ page \in StatPages
    /\ isLoading' = TRUE
    /\ inflight' = Append(inflight, [seq |-> submitted + 1])
    /\ submitted' = submitted + 1
    /\ gets' = gets + 1
    /\ toast' = Null
    /\ ev' = [op |-> "onSubmit", data |-> data, get |-> Statistics_query(data)]
    /\ UNCHANGED <<crudVars, page, measurements, channels, chFetches, done, ipAddress, statVars>>

\* if (result.length > 0) { setAssetName(result[0].asset_name); }
Statistics_assetName(result) ==
    IF Len(result) > 0 THEN result[1].asset_name ELSE assetName

\* mutant: the rows are replaced only by a response that has rows
Statistics_onSubmit_resume_keepsRows(i, response) ==
    /\ page = "Statistics"
    /\ i \in DOMAIN inflight
    /\ inflight' = RemoveAt(inflight, i)
    /\ done' = done \cup {inflight[i].seq}
    /\ ev' = [op |-> "statistics", seq |-> inflight[i].seq, response |-> response]
    /\ toast' = Null
    /\ IF response.kind = "reject"
       THEN UNCHANGED <<measurements, isLoading, statVars>>
       ELSE /\ isLoading' = FALSE
            /\ IF response.kind = "ok"
               THEN /\ allAvgConsumption' = Round4(ForEachAvg(response.rows))
                    /\ allSumConsumption' = Round4(ForEachSum(response.rows))
                    /\ assetName' = Statistics_assetName(response.rows)
                    /\ measurements' =
                         IF Len(response.rows) > 0 THEN Arr(response.rows) ELSE measurements
               ELSE UNCHANGED <<measurements, statVars>>
    /\ UNCHANGED <<crudVars, page, channels, chFetches, submitted, gets, ipAddress>>

\* mutant: a response that is not ok empties the table
Statistics_onSubmit_resume_clearsOnError(i, response) ==
    /\ page = "Statistics"
    /\ i \in DOMAIN inflight
    /\ inflight' = RemoveAt(inflight, i)
    /\ done' = done \cup {inflight[i].seq}
    /\ ev' = [op |-> "statistics", seq |-> inflight[i].seq, response |-> response]
    /\ toast' = Null
    /\ IF response.kind = "reject"
       THEN UNCHANGED <<measurements, isLoading, statVars>>
       ELSE /\ isLoading' = FALSE
            /\ IF response.kind = "ok"
               THEN /\ allAvgConsumption' = Round4(ForEachAvg(response.rows))
                    /\ allSumConsumption' = Round4(ForEachSum(response.rows))
                    /\ assetName' = Statistics_assetName(response.rows)
                    /\ measurements' = Arr(response.rows)
               ELSE /\ measurements' = Arr(<< >>)
                    /\ UNCHANGED statVars
    /\ UNCHANGED <<crudVars, page, channels, chFetches, submitted, gets, ipAddress>>

\* statistics.tsx: onSubmit after "await fetch(query)"
Statistics_onSubmit_resume(i, response) ==
    /\ page = "Statistics"
    /\ i \in DOMAIN inflight
    /\ inflight' = RemoveAt(inflight, i)
    /\ done' = done \cup {inflight[i].seq}
    /\ ev' = [op |-> "statistics", seq |-> inflight[i].seq, response |-> response]
    /\ toast' = Null
    /\ IF response.kind = "reject"
       THEN UNCHANGED <<measurements, isLoading, statVars>>
       ELSE /\ isLoading' = FALSE
            /\ IF response.kind = "ok"
               THEN /\ allAvgConsumption' = Round4(ForEachAvg(response.rows))
                    /\ allSumConsumption' = Round4(ForEachSum(response.rows))
                    /\ assetName' = Statistics_assetName(response.rows)
                    /\ measurements' = Arr(response.rows)
               ELSE UNCHANGED <<measurements, statVars>>
    /\ UNCHANGED <<crudVars, page, channels, chFetches, submitted, gets, ipAddress>>

\* the earlier variant: the totals are stored as they were added up
Statistics0_onSubmit_resume(i, response) ==
    /\ page = "Statistics0"
    /\ i \in DOMAIN inflight
    /\ inflight' = RemoveAt(inflight, i)
    /\ done' = done \cup {inflight[i].seq}
    /\ ev' = [op |-> "statistics", seq |-> inflight[i].seq, response |-> response]
    /\ toast' = Null
    /\ IF response.kind = "reject"
       THEN UNCHANGED <<measurements, isLoading, statVars>>
       ELSE /\ isLoading' = FALSE
            /\ IF response.kind = "ok"
               THEN /\ allAvgConsumption' = ForEachAvg(response.rows)
                    /\ allSumConsumption' = ForEachSum(response.rows)
                    /\ assetName' = Statistics_assetName(response.rows)
                    /\ measurements' = Arr(response.rows)
               ELSE UNCHANGED <<measurements, statVars>>
    /\ UNCHANGED <<crudVars, page, channels, chFetches, submitted, gets, ipAddress>>

NextStat ==
    \/ /\ submitted < MaxStatSubmits
       /\ \E data \in StatisticsFormValues : Statistics_onSubmit(data)
    \/ /\ page = "Statistics"
       /\ \E i \in 1..MaxStatSubmits, response \in StatisticsResponses :
            Statistics_onSubmit_resume(i, response)
    \/ /\ page = "Statistics0"
       /\ \E i \in 1..MaxStatSubmits, response \in StatisticsResponses :
            Statistics0_onSubmit_resume(i, response)

SpecStat == InitStat /\ [][NextStat]_vars

----------------------------------------------------------------------------
(* The selection machine: any address of the dropdown is selected, also     *)
(* while earlier channel fetches are in flight                               *)

NextChannels ==
    \/ /\ Len(chFetches) < MaxChannelFetches
       /\ \E ip \in IpAddresses : Simple_ipAddress_onChange(ip)
    \/ /\ Len(chFetches) < MaxChannelFetches
       /\ \E ip \in IpAddresses : Home_ipAddress_onChange(ip)
    \/ /\ Len(chFetches) < MaxChannelFetches
       /\ \E ip \in IpAddresses : Home2_ipAddress_onChange(ip)
    \/ \E i \in 1..MaxChannelFetches : Simple_fetchChannels_resume(i)
    \/ \E i \in 1..MaxChannelFetches : fetchChannels_resume(i)

SpecChannels == Init /\ [][NextChannels]_vars

----------------------------------------------------------------------------
(* The capture machine: the Simple page with selections, channel fetches,   *)
(* and reports submitted for the address the form holds                      *)

\* the form values of a monthly report of February of the first year
CaptureFormValue(ip) ==
    [fromDate |-> [y |-> FirstYear, m |-> 2, d |-> 1],
     toDate |-> [y |-> FirstYear, m |-> 2, d |-> 28],
     ipAddress |-> ip, channel |-> <<-1>>, details |-> "monthly", multiplier |-> Null]

InitCapture ==
    /\ page = "Simple"
    /\ measurements = Arr(<< >>)
    /\ channels = << >>
    /\ isLoading = FALSE
    /\ toast = Null
    /\ inflight = << >>
    /\ chFetches = << >>
    /\ submitted = 0
    /\ done = {}
    /\ ev = [op |-> "mount"]
    /\ gets = 0
    /\ ipAddress = NoSelection
    /\ allAvgConsumption = 0
    /\ allSumConsumption = 0
    /\ assetName = ""
    /\ NoEditor

NextCapture ==
    \/ /\ Len(chFetches) < MaxChannelFetches
       /\ \E ip \in IpAddresses : Simple_ipAddress_onChange(ip)
    \/ \E i \in 1..MaxChannelFetches : Simple_fetchChannels_resume(i)
    \/ /\ IsIpV4(ipAddress) /\ Len(inflight) < MaxInFlight /\ submitted < MaxSubmits
       /\ \E now \in CurrentYears : Simple_onSubmit(CaptureFormValue(ipAddress), now)
    \/ \E i \in 1..MaxInFlight, body \in ReportBodies : Simple_updateTable_resume(i, body)

SpecCapture == InitCapture /\ [][NextCapture]_vars

----------------------------------------------------------------------------
(* The editor pages: channels, assets and power meters. Each has a table    *)
(* with one selectable row, a form dialog for New and Modify, and requests  *)
(* that are promise chains: a chain waits for its response ("fetch"), then  *)
(* possibly for updatePage ("updatePage").                                   *)

EditorPages == {"Channels", "Assets", "Powermeter"}

\* getDefaultChannelValue(), getDefaultAssetsValues(), getDefaultPowerMeterValues()
DefaultRow(pg) ==
    IF pg = "Channels"
    THEN [power_meter_id |-> -1, channel |-> 1, channel_name |-> "", enabled |-> FALSE]
    ELSE IF pg = "Assets"
    THEN [asset_name_id |-> 0, power_meter_id |-> 0, channel_id |-> 0]
    ELSE [power_meter_name |-> "", ip_address |-> "", port |-> 50003,
          time_zone |-> "Europe/Budapest", enabled |-> FALSE]

\* the rows the table of a page shows
TableRows(pg) ==
    IF pg = "Channels"
    THEN {[id |-> i, power_meter_id |-> 1, channel |-> 1, channel_name |-> "L1",
           enabled |-> TRUE] : i \in 0..MaxRowId}
    ELSE IF pg = "Assets"
    THEN {[id |-> i, asset_name_id |-> 1, asset_name |-> "Hall", power_meter_id |-> 1,
           channel_id |-> 1] : i \in 0..MaxRowId}
    ELSE {[id |-> i, power_meter_name |-> "PM", ip_address |-> "10.0.0.5", port |-> 50003,
           time_zone |-> "Europe/Budapest", enabled |-> TRUE] : i \in 0..MaxRowId}

\* row && row.id
HasId(row) == "id" \in DOMAIN row /\ row.id # 0

\* the id in the URL of a request for a row, 0 when the row has none
IdOf(row) == IF HasId(row) THEN row.id ELSE 0

\* the asset names the backend knows, and what can be typed into the name field
AssetNames == {[id |-> 1, name |-> "Hall"]}
AssetNameTexts == {"Hall", "Shed", "  "}

\* assetNames.find((item) => item.name === e.value)?.id, 0 when nothing is found
AssetNameIdByName(text) ==
    IF \E n \in AssetNames : n.name = text
    THEN (CHOOSE n \in AssetNames : n.name = text).id
    ELSE 0

\* String(text).trim() === ""
IsBlank(text) == text \in {"", " ", "  "}

\* the lastID the backend gives a newly created asset name
LastIDs == {7}

\* how a mutation request can end: a 2xx answer with a JSON body, another
\* status with a JSON body, another status with a body that is not JSON, or a
\* failed fetch
Outcomes == {"ok", "notok_json", "notok_text", "reject"}

MsgApi == "Please check is the powermeter-api runing."
MsgFailedToFetch == "Failed to fetch"
MsgNotJson == "Unexpected token < in JSON at position 0"
MsgFillAssetName == "Please fill asset name."

Success(text) == <<"success", text>>

\* the chain of a PUT or DELETE has no test of response.ok: response.json()
\* decides whether .then or .catch runs
Resolves_put(outcome) == outcome \in {"ok", "notok_json"}

\* the chain of a POST throws unless response.ok
Resolves_post(outcome) == outcome = "ok"

\* err.message in the .catch of a chain
Message_put(outcome) == IF outcome = "reject" THEN MsgFailedToFetch ELSE MsgNotJson

Message_post(outcome) == IF outcome = "reject" THEN MsgFailedToFetch ELSE MsgApi

InitEditor ==
    /\ page \in EditorPages
    /\ measurements = Arr(<< >>)
    /\ channels = << >>
    /\ isLoading = FALSE
    /\ toast = Null
    /\ inflight = << >>
    /\ chFetches = << >>
    /\ submitted = 0
    /\ done = {}
    /\ ev = [op |-> "mount"]
    /\ gets = 0
    /\ ipAddress = NoSelection
    /\ allAvgConsumption = 0
    /\ allSumConsumption = 0
    /\ assetName = ""
    /\ visible = FALSE
    /\ confirmDialogVisible = FALSE
    /\ editedRow = DefaultRow(page)
    /\ selectedRow = Undefined
    /\ assetNameValue = [id |-> 0, name |-> ""]
    /\ requests = << >>

\* what no editor action changes
reportVars == <<page, measurements, channels, chFetches, done, gets, ipAddress, statVars>>

(* The table and the buttons, the same on the three pages *)

\* onSelectionChange; the dialogs are modal
onSelectionChange(row) ==
    /\ page \in EditorPages
    /\ ~visible /\ ~confirmDialogVisible
    /\ selectedRow' = row
    /\ toast' = Null
    /\ ev' = [op |-> "onSelectionChange"]
    /\ UNCHANGED <<reportVars, isLoading, inflight, submitted, visible, confirmDialogVisible,
                   editedRow, assetNameValue, requests>>

\* the useEffect on editedRow of the asset page: a row with an id gives its
\* name to the form, any other row empties the name field and keeps assetName
Assets_editedRow_effect(row) ==
    IF page = "Assets"
    THEN IF HasId(row) THEN [id |-> row.asset_name_id, name |-> row.asset_name]
         ELSE [id |-> assetNameValue.id, name |-> ""]
    ELSE assetNameValue

New_onClick ==
    /\ page \in EditorPages
    /\ ~visible /\ ~confirmDialogVisible
    /\ selectedRow' = Undefined
    /\ editedRow' = DefaultRow(page)
    /\ visible' = TRUE
    /\ assetNameValue' = Assets_editedRow_effect(DefaultRow(page))
    /\ toast' = Null
    /\ ev' = [op |-> "New"]
    /\ UNCHANGED <<reportVars, isLoading, inflight, submitted, confirmDialogVisible, requests>>

\* disabled={selectedRow && selectedRow.id ? false : true}
Modify_onClick ==
    /\ page \in EditorPages
    /\ ~visible /\ ~confirmDialogVisible
    /\ HasId(selectedRow)
    /\ editedRow' = selectedRow
    /\ visible' = TRUE
    /\ assetNameValue' = Assets_editedRow_effect(selectedRow)
    /\ toast' = Null
    /\ ev' = [op |-> "Modify"]
    /\ UNCHANGED <<reportVars, isLoading, inflight, submitted, confirmDialogVisible,
                   selectedRow, requests>>

Delete_onClick ==
    /\ page \in EditorPages
    /\ ~visible /\ ~confirmDialogVisible
    /\ HasId(selectedRow)
    /\ confirmDialogVisible' = TRUE
    /\ toast' = Null
    /\ ev' = [op |-> "Delete"]
    /\ UNCHANGED <<reportVars, isLoading, inflight, submitted, visible, editedRow, selectedRow,
                   assetNameValue, requests>>

\* onHide of the form dialog and of the confirmation
Dialog_onHide ==
    /\ page \in EditorPages
    /\ visible \/ confirmDialogVisible
    /\ visible' = FALSE
    /\ confirmDialogVisible' = FALSE
    /\ toast' = Null
    /\ ev' = [op |-> "onHide"]
    /\ UNCHANGED <<reportVars, isLoading, inflight, submitted, editedRow, selectedRow,
                   assetNameValue, requests>>

(* Requests and their chains *)

Request(method, entity, id, nameId) ==
    [method |-> method, entity |-> entity, id |-> id, asset_name_id |-> nameId]

\* a chain waiting for the response of the request it issued
Chain(method, entity, row) ==
    [req |-> Len(requests) + 1, method |-> method, entity |-> entity, stage |-> "fetch",
     rowId |-> IdOf(row), cont |-> "none", text |-> ""]

MethodFor_alwaysPost(row) == "POST"

\* if (editedRow && editedRow.id) PUT else POST
MethodFor(row) == IF HasId(row) THEN "PUT" ELSE "POST"

\* await updatePage() of a chain: the chain goes on in updatePage_resume
AwaitUpdatePage(i, cont, text) ==
    [inflight EXCEPT ![i].stage = "updatePage", ![i].cont = cont, ![i].text = text]

\* submitCallback of the channel form
Channels_submitCallback ==
    /\ page = "Channels"
    /\ visible
    /\ submitted < MaxEditorSubmits
    /\ requests' = Append(requests, Request(MethodFor(editedRow), "channels", IdOf(editedRow), 0))
    /\ inflight' = Append(inflight, Chain(MethodFor(editedRow), "channels", editedRow))
    /\ submitted' = submitted + 1
    /\ toast' = Null
    /\ ev' = [op |-> "submit", method |-> MethodFor(editedRow), issued |-> 1]
    /\ UNCHANGED <<reportVars, isLoading, visible, confirmDialogVisible, editedRow, selectedRow,
                   assetNameValue>>

\* the .then and .catch of the two chains of submitCallback
Channels_submitCallback_resume(i, outcome) ==
    /\ page = "Channels"
    /\ inflight[i].stage = "fetch"
    /\ inflight[i].method \in {"PUT", "POST"}
    /\ IF inflight[i].method = "PUT"
       THEN IF Resolves_put(outcome)
            THEN /\ inflight' = AwaitUpdatePage(i, "close", "Updated channel")
                 /\ UNCHANGED <<toast, visible>>
            ELSE /\ inflight' = RemoveAt(inflight, i)
                 /\ toast' = Error(Message_put(outcome))
                 /\ UNCHANGED visible
       ELSE IF Resolves_post(outcome)
            THEN /\ inflight' = AwaitUpdatePage(i, "close", "Saved channel")
                 /\ UNCHANGED <<toast, visible>>
            ELSE /\ inflight' = RemoveAt(inflight, i)
                 /\ toast' = Error(Message_post(outcome))
                 /\ visible' = FALSE
    /\ ev' = [op |-> "response", method |-> inflight[i].method, outcome |-> outcome]
    /\ UNCHANGED <<reportVars, isLoading, submitted, confirmDialogVisible, editedRow,
                   selectedRow, assetNameValue, requests>>

\* the last segment of the URLs of a page
EntityOf(pg) ==
    IF pg = "Channels" THEN "channels" ELSE IF pg = "Assets" THEN "assets" ELSE "power_meter"

DeletedText(pg) ==
    IF pg = "Channels" THEN "Deleted channels"
    ELSE IF pg = "Assets" THEN "Deleted asset" ELSE "Deleted power_meter"

\* accept of the confirmation: deleteSelectedRow, then the dialog hides
deleteSelectedRow ==
    /\ page \in EditorPages
    /\ confirmDialogVisible
    /\ submitted < MaxEditorSubmits
    /\ IF selectedRow # Undefined
       THEN /\ requests' = Append(requests, Request("DELETE", EntityOf(page), IdOf(selectedRow), 0))
            /\ inflight' = Append(inflight, Chain("DELETE", EntityOf(page), selectedRow))
       ELSE UNCHANGED <<requests, inflight>>
    /\ submitted' = submitted + 1
    /\ confirmDialogVisible' = FALSE
    /\ toast' = Null
    /\ ev' = [op |-> "accept", selected |-> selectedRow]
    /\ UNCHANGED <<reportVars, isLoading, visible, editedRow, selectedRow, assetNameValue>>

\* the .then and .catch of the chain of deleteSelectedRow
deleteSelectedRow_resume(i, outcome) ==
    /\ page \in EditorPages
    /\ inflight[i].stage = "fetch"
    /\ inflight[i].method = "DELETE"
    /\ IF Resolves_put(outcome)
       THEN /\ toast' = Success(DeletedText(page))
            /\ inflight' = AwaitUpdatePage(i, "none", "")
       ELSE /\ toast' = Error(Message_put(outcome))
            /\ inflight' = RemoveAt(inflight, i)
    /\ ev' = [op |-> "response", method |-> "DELETE", outcome |-> outcome]
    /\ UNCHANGED <<reportVars, isLoading, submitted, visible, confirmDialogVisible, editedRow,
                   selectedRow, assetNameValue, requests>>

updatePage_resume_keepsSelection(i) ==
    /\ page \in EditorPages
    /\ inflight[i].stage = "updatePage"
    /\ editedRow' = DefaultRow(page)
    /\ assetNameValue' = Assets_editedRow_effect(DefaultRow(page))
    /\ IF inflight[i].cont = "close"
       THEN /\ visible' = FALSE
            /\ toast' = Success(inflight[i].text)
       ELSE UNCHANGED <<visible, toast>>
    /\ inflight' = RemoveAt(inflight, i)
    /\ ev' = [op |-> "updatePage", method |-> inflight[i].method]
    /\ UNCHANGED <<reportVars, isLoading, submitted, confirmDialogVisible, requests, selectedRow>>

\* updatePage once its two invalidateQueries have settled, and what the chain
\* does after its await
updatePage_resume(i) ==
    /\ page \in EditorPages
    /\ inflight[i].stage = "updatePage"
    /\ selectedRow' = Undefined
    /\ editedRow' = DefaultRow(page)
    /\ assetNameValue' = Assets_editedRow_effect(DefaultRow(page))
    /\ IF inflight[i].cont = "close"
       THEN /\ visible' = FALSE
            /\ toast' = Success(inflight[i].text)
       ELSE UNCHANGED <<visible, toast>>
    /\ inflight' = RemoveAt(inflight, i)
    /\ ev' = [op |-> "updatePage", method |-> inflight[i].method]
    /\ UNCHANGED <<reportVars, isLoading, submitted, confirmDialogVisible, requests>>

\* onSubmit of the power meter form
Powermeter_onSubmit ==
    /\ page = "Powermeter"
    /\ visible
    /\ submitted < MaxEditorSubmits
    /\ requests' = Append(requests, Request(MethodFor(editedRow), "power_meter", IdOf(editedRow), 0))
    /\ inflight' = Append(inflight, Chain(MethodFor(editedRow), "power_meter", editedRow))
    /\ submitted' = submitted + 1
    \* setLoading(true), and in the PUT branch setLoading(false) after the fetch call
    /\ isLoading' = (MethodFor(editedRow) = "POST")
    /\ toast' = Null
    /\ ev' = [op |-> "submit", method |-> MethodFor(editedRow), issued |-> 1]
    /\ UNCHANGED <<reportVars, visible, confirmDialogVisible, editedRow, selectedRow,
                   assetNameValue>>

\* the .then and .catch of the two chains of onSubmit; updatePage is not awaited
Powermeter_onSubmit_resume(i, outcome) ==
    /\ page = "Powermeter"
    /\ inflight[i].stage = "fetch"
    /\ inflight[i].method \in {"PUT", "POST"}
    /\ IF inflight[i].method = "PUT"
       THEN IF Resolves_put(outcome)
            THEN /\ isLoading' = FALSE
                 /\ inflight' = AwaitUpdatePage(i, "none", "")
                 /\ visible' = FALSE
                 /\ toast' = Success("Updated powermeter")
            ELSE /\ inflight' = RemoveAt(inflight, i)
                 /\ toast' = Error(Message_put(outcome))
                 /\ UNCHANGED <<isLoading, visible>>
       ELSE IF Resolves_post(outcome)
            THEN /\ isLoading' = FALSE
                 /\ visible' = FALSE
                 /\ toast' = Success("Saved powermeter")
                 /\ inflight' = AwaitUpdatePage(i, "none", "")
            ELSE /\ isLoading' = FALSE
                 /\ visible' = FALSE
                 /\ toast' = Error(Message_post(outcome))
                 /\ inflight' = RemoveAt(inflight, i)
    /\ ev' = [op |-> "response", method |-> inflight[i].method, outcome |-> outcome]
    /\ UNCHANGED <<reportVars, submitted, confirmDialogVisible, editedRow, selectedRow,
                   assetNameValue, requests>>

\* onChange of the asset name field
Assets_assetName_onChange(text) ==
    /\ page = "Assets"
    /\ visible
    /\ assetNameValue' = [id |-> AssetNameIdByName(text), name |-> text]
    /\ toast' = Null
    /\ ev' = [op |-> "onChange"]
    /\ UNCHANGED <<reportVars, isLoading, inflight, submitted, visible, confirmDialogVisible,
                   editedRow, selectedRow, requests>>

\* onAssetSubmitCallback up to its first await or to its end
Assets_onSubmit ==
    /\ page = "Assets"
    /\ visible
    /\ submitted < MaxEditorSubmits
    /\ IF IsBlank(assetNameValue.name)
       THEN /\ toast' = Error(MsgFillAssetName)
            /\ ev' = [op |-> "submit", method |-> "none", issued |-> 0]
            /\ UNCHANGED <<isLoading, inflight, submitted, requests>>
       ELSE IF assetNameValue.id = 0
       THEN /\ requests' = Append(requests, Request("POST", "asset_names", 0, 0))
            /\ inflight' = Append(inflight, [Chain("POST", "asset_names", editedRow)
                                             EXCEPT !.stage = "name"])
            /\ submitted' = submitted + 1
            /\ isLoading' = TRUE
            /\ toast' = Null
            /\ ev' = [op |-> "submit", method |-> "name", issued |-> 1]
       ELSE /\ requests' = Append(requests, Request(MethodFor(editedRow), "assets",
                                                    IdOf(editedRow), assetNameValue.id))
            /\ inflight' = Append(inflight, Chain(MethodFor(editedRow), "assets", editedRow))
            /\ submitted' = submitted + 1
            \* setLoading(true), and in the PUT branch setLoading(false) after the fetch call
            /\ isLoading' = (MethodFor(editedRow) = "POST")
            /\ toast' = Null
            /\ ev' = [op |-> "submit", method |-> MethodFor(editedRow), issued |-> 1]
    /\ UNCHANGED <<reportVars, visible, confirmDialogVisible, editedRow, selectedRow,
                   assetNameValue>>

\* onAssetSubmitCallback after await saveAssetName(...): a status other than
\* 200 or a failed fetch throws out of the handler, which has no try
Assets_saveAssetName_resume(i, outcome, lastID) ==
    /\ page = "Assets"
    /\ inflight[i].stage = "name"
    /\ IF outcome = "ok"
       THEN LET method == IF inflight[i].rowId # 0 THEN "PUT" ELSE "POST" IN
            /\ assetNameValue' = [id |-> lastID, name |-> assetNameValue.name]
            /\ requests' = Append(requests, Request(method, "assets", inflight[i].rowId, lastID))
            /\ inflight' = [inflight EXCEPT ![i].req = Len(requests) + 1, ![i].method = method,
                                            ![i].entity = "assets", ![i].stage = "fetch"]
            /\ isLoading' = IF method = "PUT" THEN FALSE ELSE isLoading
       ELSE /\ inflight' = RemoveAt(inflight, i)
            /\ UNCHANGED <<assetNameValue, requests, isLoading>>
    /\ ev' = [op |-> "saveAssetName", outcome |-> outcome, lastID |-> lastID]
    /\ UNCHANGED <<reportVars, toast, submitted, visible, confirmDialogVisible, editedRow,
                   selectedRow>>

\* the .then and .catch of the two chains of onAssetSubmitCallback
Assets_onSubmit_resume(i, outcome) ==
    /\ page = "Assets"
    /\ inflight[i].stage = "fetch"
    /\ inflight[i].method \in {"PUT", "POST"}
    /\ IF inflight[i].method = "PUT"
       THEN IF Resolves_put(outcome)
            THEN /\ isLoading' = FALSE
                 /\ inflight' = AwaitUpdatePage(i, "close", "Updated asset")
                 /\ UNCHANGED <<toast, visible>>
            ELSE /\ inflight' = RemoveAt(inflight, i)
                 /\ toast' = Error(Message_put(outcome))
                 /\ UNCHANGED <<isLoading, visible>>
       ELSE IF Resolves_post(outcome)
            THEN /\ isLoading' = FALSE
                 /\ visible' = FALSE
                 /\ toast' = Success("Saved asset")
                 /\ inflight' = AwaitUpdatePage(i, "none", "")
            ELSE /\ isLoading' = FALSE
                 /\ visible' = FALSE
                 /\ toast' = Error(Message_post(outcome))
                 /\ inflight' = RemoveAt(inflight, i)
    /\ ev' = [op |-> "response", method |-> inflight[i].method, outcome |-> outcome]
    /\ UNCHANGED <<reportVars, submitted, confirmDialogVisible, editedRow, selectedRow,
                   assetNameValue, requests>>

NextEditor ==
    \/ \E row \in TableRows(page) : onSelectionChange(row)
    \/ New_onClick
    \/ Modify_onClick
    \/ Delete_onClick
    \/ Dialog_onHide
    \/ Channels_submitCallback
    \/ \E i \in 1..Len(inflight), outcome \in Outcomes : Channels_submitCallback_resume(i, outcome)
    \/ deleteSelectedRow
    \/ \E i \in 1..Len(inflight), outcome \in Outcomes : deleteSelectedRow_resume(i, outcome)
    \/ \E i \in 1..Len(inflight) : updatePage_resume(i)
    \/ Powermeter_onSubmit
    \/ \E i \in 1..Len(inflight), outcome \in Outcomes : Powermeter_onSubmit_resume(i, outcome)
    \/ \E text \in AssetNameTexts : Assets_assetName_onChange(text)
    \/ Assets_onSubmit
    \/ \E i \in 1..Len(inflight), outcome \in Outcomes, lastID \in LastIDs :
          Assets_saveAssetName_resume(i, outcome, lastID)
    \/ \E i \in 1..Len(inflight), outcome \in Outcomes : Assets_onSubmit_resume(i, outcome)

SpecEditor == InitEditor /\ [][NextEditor]_vars

----------------------------------------------------------------------------
(* What a state shows of the last submission *)

\* the submission was rejected with the message text and issued no request
Rejected(text) ==
    /\ toast = Error(text)
    /\ ev.get = Null
    /\ inflight = << >>
    /\ isLoading = FALSE

\* the submission was accepted: no message, one request issued and in flight
Accepted ==
    /\ toast = Null
    /\ ev.get # Null
    /\ Len(inflight) = 1
    /\ isLoading = TRUE

SimpleSubmitted == page = "Simple" /\ ev.op = "onSubmit"

PastYearNotMonthly == Year(ev.data.fromDate) < ev.now /\ ev.data.details # "monthly"

CrossYear == Year(ev.data.fromDate) # Year(ev.data.toDate)

\* toDate < fromDate, by the position of the days in the calendar
Ordinal(d) ==
    365 * (d.y - 1) + ((d.y - 1) \div 4) - ((d.y - 1) \div 100) + ((d.y - 1) \div 400)
    + <<0, 31, 59, 90, 120, 151, 181, 212, 243, 273, 304, 334>>[d.m]
    + (IF d.m > 2 /\ IsLeap(d.y) THEN 1 ELSE 0)
    + d.d

Inverted == Ordinal(ev.data.toDate) < Ordinal(ev.data.fromDate)

\* a displayed row without its channel_name
Measured(r) == [f \in DOMAIN r \ {"channel_name"} |-> r[f]]

\* the value of the first key=value pair of a query with the given key
Param(query, key) == SelectSeq(query, LAMBDA kv : kv[1] = key)[1][2]

Keys(query) == [i \in 1..Len(query) |-> query[i][1]]

\* every day of the calendar the requests can name
CalendarDays ==
    {d \in [y : FirstYear..(FirstYear + NumYears), m : 1..12, d : 1..31] :
        d.d <= DaysInMonth(d.y, d.m)}

----------------------------------------------------------------------------
(* Claims *)

\* C1: on the Simple page nothing serializes overlapping updateTable calls: once a
\* response has been handled the displayed rows are those of that response (its
\* rows, in order, for an array; no rows for an err object), whichever call was
\* submitted first, so the response of an earlier submission that resolves after a
\* later one overwrites the later one's rows.
C1_LastResolvedWins ==
    (page = "Simple" /\ ev.op = "updateTable" /\ ev.body.kind # "reject") =>
        IF IsArray(ev.body)
        THEN /\ IsArray(measurements)
             /\ Len(measurements.rows) = Len(ev.body.rows)
             /\ \A k \in 1..Len(ev.body.rows) : Measured(measurements.rows[k]) = ev.body.rows[k]
        ELSE ~(IsArray(measurements) /\ Len(measurements.rows) > 0)

\* C1 witness: the first submission is answered with rows after the second one
\* has been handled, and its rows are what is displayed.
C1_Witness ==
    /\ page = "Simple" /\ ev.op = "updateTable"
    /\ ev.seq = 1 /\ 2 \in done /\ inflight = << >>
    /\ IsArray(ev.body) /\ Len(ev.body.rows) > 0
    /\ IsArray(measurements) /\ Len(measurements.rows) > 0

\* C2: every request sent to /api/measurements/report, on every page variant, has
\* fromDate <= toDate, both dates in one calendar year, and details = "monthly"
\* when fromDate lies in a year before the current one.
C2_ReportRequestInvariant ==
    (ev.op = "onSubmit" /\ ev.get # Null) =>
        /\ ~Inverted
        /\ ~CrossYear
        /\ (Year(ev.data.fromDate) < ev.now => ev.data.details = "monthly")

\* C3: on the Simple page the rules are applied in the order granularity, same
\* year, inverted range, the first failing rule decides, and otherwise the request
\* is accepted and fetched; exactly one of the four outcomes occurs.
C3_ValidationOrder ==
    SimpleSubmitted =>
        /\ IF PastYearNotMonthly THEN Rejected(MsgGranularity)
           ELSE IF CrossYear THEN Rejected(MsgSameYear)
           ELSE IF Inverted THEN Rejected(MsgInverted)
           ELSE Accepted
        /\ Cardinality({o \in 1..4 :
               \/ o = 1 /\ Rejected(MsgGranularity)
               \/ o = 2 /\ Rejected(MsgSameYear)
               \/ o = 3 /\ Rejected(MsgInverted)
               \/ o = 4 /\ Accepted}) = 1

\* C3 witness: an inverted cross-year range of the current year is rejected by the
\* same-year rule.
C3_Witness ==
    /\ SimpleSubmitted /\ ~PastYearNotMonthly /\ CrossYear /\ Inverted
    /\ Rejected(MsgSameYear)

\* C4 (as claimed): every submission with toDate < fromDate is rejected as an
\* inverted range, whatever the other fields are.
C4_InvertedAlways ==
    (SimpleSubmitted /\ Inverted) => Rejected(MsgInverted)

\* C4 (amended): a submission with toDate < fromDate is rejected as an inverted
\* range when both dates are in the same year and the granularity rule does not
\* apply (fromDate not in a past year, or details monthly).
C4_InvertedSameYear ==
    (SimpleSubmitted /\ Inverted /\ ~CrossYear /\ ~PastYearNotMonthly) =>
        Rejected(MsgInverted)

C4_Witness ==
    /\ SimpleSubmitted /\ Inverted /\ ~CrossYear /\ ~PastYearNotMonthly
    /\ toast = Error(MsgInverted)

\* C5 (as claimed): every submission whose dates lie in different years is
\* rejected as a cross-year range, for every details value and current year.
C5_CrossYearAlways ==
    (SimpleSubmitted /\ CrossYear) => Rejected(MsgSameYear)

\* C5 (amended): a submission whose dates lie in different years is rejected as a
\* cross-year range unless fromDate is in a past year and details is not monthly
\* (then the granularity rule rejects it first).
C5_CrossYearAfterGranularity ==
    (SimpleSubmitted /\ CrossYear /\ ~PastYearNotMonthly) => Rejected(MsgSameYear)

C5_Witness ==
    /\ SimpleSubmitted /\ CrossYear /\ ~PastYearNotMonthly
    /\ ev.data.details # "monthly"
    /\ toast = Error(MsgSameYear)

\* C6: a submission with fromDate in a past year and details other than monthly
\* is rejected by the granularity rule; with details monthly it is not rejected by
\* that rule and is decided by the same-year and inverted-range rules.
C6_GranularityRule ==
    SimpleSubmitted =>
        /\ PastYearNotMonthly => Rejected(MsgGranularity)
        /\ (Year(ev.data.fromDate) < ev.now /\ ev.data.details = "monthly") =>
              /\ toast # Error(MsgGranularity)
              /\ IF CrossYear THEN Rejected(MsgSameYear)
                 ELSE IF Inverted THEN Rejected(MsgInverted)
                 ELSE Accepted

C6_Witness ==
    /\ SimpleSubmitted /\ PastYearNotMonthly /\ ~CrossYear /\ ~Inverted
    /\ toast = Error(MsgGranularity)

\* C7: on every page the report query carries fromdate = fromDate and todate =
\* the calendar day after toDate, also across the end of a month or a year.
C7_TodateIsNextDay ==
    (ev.op = "onSubmit" /\ ev.get # Null) =>
        /\ Param(ev.get, "fromdate") = Format(ev.data.fromDate)
        /\ \E d \in CalendarDays :
              /\ Ordinal(d) = Ordinal(ev.data.toDate) + 1
              /\ Param(ev.get, "todate") = Format(d)

\* C8: the Simple page builds the query as fromdate, todate, ip, details,
\* multiplier in that order, multiplier always present ("null" when unset), and
\* channel appended exactly when the selected channel is a number above 0.
C8_QueryShape ==
    (SimpleSubmitted /\ ev.get # Null) =>
        /\ Keys(ev.get) =
              <<"fromdate", "todate", "ip", "details", "multiplier">>
              \o (IF ev.data.channel \in {<<n>> : n \in 1..2}
                  THEN <<"channel">> ELSE << >>)
        /\ ev.get[3][2] = ev.data.ipAddress
        /\ ev.get[4][2] = ev.data.details
        /\ ev.get[5][2] = (IF ev.data.multiplier = Null THEN "null" ELSE "2")
        /\ (Len(ev.get) = 6 => ev.get[6][2] \in {"1", "2"})

\* C8 witness: channel 0 selected, no multiplier: five parameters, no channel.
C8_Witness ==
    /\ SimpleSubmitted /\ ev.get # Null
    /\ ev.data.channel = <<0>> /\ ev.data.multiplier = Null
    /\ Len(ev.get) = 5

\* C9: when the report body is an object carrying an err field, the err text is
\* shown as an error and the displayed rows become empty.
C9_ErrBodyEmptiesRows ==
    (page = "Simple" /\ ev.op = "updateTable" /\ ev.body.kind = "object") =>
        /\ toast = Error(ev.body.err)
        /\ measurements = Arr(<< >>)

\* C10: an empty-array body is a valid result: the displayed rows become the
\* empty list, no error message is shown and the loading flag is cleared.
C10_EmptyArrayIsValid ==
    (page = "Simple" /\ ev.op = "updateTable" /\ ev.body = Arr(<< >>)) =>
        /\ measurements = Arr(<< >>)
        /\ toast = Null
        /\ isLoading = FALSE

C10_Witness ==
    /\ page = "Simple" /\ ev.op = "updateTable" /\ ev.body = Arr(<< >>)
    /\ measurements = Arr(<< >>) /\ ~isLoading

----
\* C11: each accepted report submission issues exactly one GET to the report
\* endpoint: the number of report GETs ever issued equals the number of accepted
\* submissions, also after an error body or a failed fetch has been handled.
C11_OneGetPerSubmission ==
    page \in Pages => gets = submitted

\* a failed fetch and an error body have both been handled, nothing is in flight
C11_Witness ==
    /\ page = "Simple"
    /\ submitted = 2
    /\ inflight = << >>
    /\ ev.op = "updateTable"
    /\ ev.body.kind = "reject"
    /\ gets = 2

----
\* C12: enrichment preserves the rows: for every array response and every channel
\* list the displayed sequence has the length of the response, and the row at each
\* index has the channel number and the measured fields of the response row at
\* that index.
C12_EnrichPreservesRows ==
    (ev.op = "updateTable" /\ IsArray(ev.body)) =>
        /\ IsArray(measurements)
        /\ Len(measurements.rows) = Len(ev.body.rows)
        /\ \A k \in 1..Len(ev.body.rows) :
             /\ measurements.rows[k].channel = ev.body.rows[k].channel
             /\ measurements.rows[k].diff = ev.body.rows[k].diff
             /\ DOMAIN measurements.rows[k] \ {"channel_name"} = DOMAIN ev.body.rows[k]

\* two rows of different channels, one of them on no list, in response order
C12_Witness ==
    /\ ev.op = "updateTable" /\ IsArray(ev.body)
    /\ Len(ev.channels) > 0
    /\ Len(ev.body.rows) = 2
    /\ ev.body.rows[1].channel = 3
    /\ ev.body.rows[2].channel = 1
    /\ measurements.rows[1].channel = 3
    /\ measurements.rows[2].channel = 1

\* the index of the first entry of a channel list with the given number, 0 if none
FirstIndex(chs, ch) ==
    IF \E j \in 1..Len(chs) : chs[j].channel = ch
    THEN CHOOSE j \in 1..Len(chs) :
           /\ chs[j].channel = ch
           /\ \A h \in 1..(j - 1) : chs[h].channel # ch
    ELSE 0

\* C13: each displayed row has the channel_name of the first entry of the channel
\* list with the row's channel number; a row whose channel is on no entry has no
\* channel_name and is displayed.
C13_FirstMatchNames ==
    (ev.op = "updateTable" /\ IsArray(ev.body)) =>
        /\ IsArray(measurements)
        /\ Len(measurements.rows) = Len(ev.body.rows)
        /\ \A k \in 1..Len(ev.body.rows) :
             IF FirstIndex(ev.channels, ev.body.rows[k].channel) = 0
             THEN "channel_name" \notin DOMAIN measurements.rows[k]
             ELSE /\ "channel_name" \in DOMAIN measurements.rows[k]
                  /\ measurements.rows[k].channel_name =
                       ev.channels[FirstIndex(ev.channels, ev.body.rows[k].channel)].channel_name

\* two entries share channel 1 under different names; the response has a row of
\* channel 1 and a row of channel 3
C13_Witness ==
    /\ ev.op = "updateTable" /\ IsArray(ev.body)
    /\ Len(ev.channels) = 2
    /\ ev.channels[1].channel = 1 /\ ev.channels[2].channel = 1
    /\ ev.channels[1].channel_name = "L2" /\ ev.channels[2].channel_name = "L1"
    /\ Len(ev.body.rows) = 2
    /\ ev.body.rows[1].channel = 1 /\ ev.body.rows[2].channel = 3
    /\ measurements.rows[1].channel_name = "L2"
    /\ "channel_name" \notin DOMAIN measurements.rows[2]

----
\* the plain sum of a field over the rows of a response
RECURSIVE Sigma(_, _)
Sigma(rows, f) == IF rows = << >> THEN 0 ELSE rows[1][f] + Sigma(Tail(rows), f)

\* an ok statistics response has just been handled
StatOkHandled == ev.op = "statistics" /\ ev.response.kind = "ok"

\* a and b differ by at most half a unit of the fourth decimal
Within4(a, b) == a - b <= 5 /\ b - a <= 5

\* C15: after an ok statistics response the combined total is the plain sum of
\* the rows' sum fields and the combined average is the plain sum (not a mean)
\* of the rows' avg fields, to the fourth decimal and exactly when the sum has
\* no fifth decimal; for a response without rows both are 0.
C15_PlainSums ==
    StatOkHandled =>
        /\ Within4(allSumConsumption, Sigma(ev.response.rows, "sum"))
        /\ Within4(allAvgConsumption, Sigma(ev.response.rows, "avg"))
        /\ (Sigma(ev.response.rows, "sum") % 10 = 0 =>
              allSumConsumption = Sigma(ev.response.rows, "sum"))
        /\ (Sigma(ev.response.rows, "avg") % 10 = 0 =>
              allAvgConsumption = Sigma(ev.response.rows, "avg"))
        /\ (ev.response.rows = << >> => allSumConsumption = 0 /\ allAvgConsumption = 0)

\* two rows whose avg fields add up to 1.00015: the average shown is their sum
C15_Witness ==
    /\ StatOkHandled
    /\ Len(ev.response.rows) = 2
    /\ Sigma(ev.response.rows, "avg") = 100015
    /\ allAvgConsumption >= 100015

\* C16: once an ok statistics response has been handled, assetName is the
\* asset_name of its first row, and is empty when it has no rows, also when an
\* earlier response had rows.
C16_AssetNameOfLastResponse ==
    StatOkHandled =>
        assetName = (IF Len(ev.response.rows) > 0 THEN ev.response.rows[1].asset_name ELSE "")

\* rounding to four decimals, an exact half away from zero
HalfAwayFromZero(t) ==
    IF t >= 0 THEN 10 * ((t + 5) \div 10) ELSE 0 - 10 * (((0 - t) + 5) \div 10)

\* C17: both statistics totals are rounded to four decimals, an exact half away
\* from zero for positive and for negative totals alike.
C17_RoundHalfAwayFromZero ==
    StatOkHandled =>
        /\ allSumConsumption = HalfAwayFromZero(Sigma(ev.response.rows, "sum"))
        /\ allAvgConsumption = HalfAwayFromZero(Sigma(ev.response.rows, "avg"))

----
\* the channel list of the power meter whose address the form field holds
SelectedChannels ==
    IF Len(PowermeterOf(ipAddress)) > 0 /\ PowermeterOf(ipAddress)[1].id # 0
    THEN ChannelsOf(PowermeterOf(ipAddress)[1].id)
    ELSE << >>

\* C18: once a power meter has been selected and every channel fetch started so
\* far has resolved, channels is the channel list of the selected power meter,
\* also after two quick selections whose fetches resolve out of order and after
\* selecting an address with no usable power-meter id.
C18_ChannelsOfSelection ==
    (ipAddress # NoSelection /\ chFetches = << >>) => channels = SelectedChannels

----
\* onSubmit has just rejected a submission of the Simple page
SimpleRuleRejected == page = "Simple" /\ ev.op = "onSubmit" /\ ev.get = Null

\* the schema has just rejected a submission of the Simple page
SimpleSchemaRejected == page = "Simple" /\ ev.op = "onSubmitError"

\* C19: every validation failure of a report submission (missing field, invalid
\* address, granularity, cross-year range, inverted range) is shown as the one
\* generic message, never as a message of its kind.
C19_GenericMessageOnly ==
    (SimpleRuleRejected \/ SimpleSchemaRejected) => toast = Error(MsgFillForm)

\* C19 (amended): a failure of the schema (missing field, invalid address) is
\* shown as the generic message whatever the failing fields are; a failure of
\* the granularity, same-year or range rule is shown as the message of that
\* rule, never as the generic one.
C19_GenericForSchemaOnly ==
    /\ SimpleSchemaRejected => toast = Error(MsgFillForm)
    /\ SimpleRuleRejected =>
         toast \in {Error(MsgGranularity), Error(MsgSameYear), Error(MsgInverted)}

\* the address was no IPv4 address and the dates were missing
C19_Witness ==
    /\ SimpleSchemaRejected
    /\ ev.errors = {"fromDate", "toDate", "ipAddress"}
    /\ toast = Error(MsgFillForm)

\* C20: a rejected report submission has no network or view-state effect: the
\* step in which onSubmit rejects on the granularity, same-year or range rule
\* issues no request and leaves measurements, channels and isLoading as they
\* were; it shows an error message.
C20_RejectionFrame ==
    [][ (page = "Simple" /\ ev'.op = "onSubmit" /\ ev'.get = Null) =>
          /\ measurements' = measurements
          /\ channels' = channels
          /\ isLoading' = isLoading
          /\ inflight' = inflight
          /\ gets' = gets
          /\ toast' # Null ]_vars

\* a submission is rejected while rows are displayed and a channel list is held
C20_Witness ==
    /\ SimpleRuleRejected
    /\ toast = Error(MsgInverted)
    /\ IsArray(measurements) /\ Len(measurements.rows) > 0
    /\ channels # << >>

----
\* C23: on the Simple page isLoading is true in every state in which a report
\* fetch is still in flight, also between the two responses of overlapping
\* submissions.
C23_LoadingWhileInFlight ==
    (page = "Simple" /\ inflight # << >>) => isLoading = TRUE

----
\* C22: every error of a report submission is recovered inside the submitting
\* action: after an accepted submission of the Simple page, whether the fetch
\* resolves with rows or with an err body or fails, the page eventually is idle
\* again (isLoading false).
C22_EventuallyIdle ==
    (page = "Simple" /\ isLoading = TRUE) ~> (isLoading = FALSE)

----
\* t is a value of four decimals at most half a unit of the fourth decimal from x
IsRounding4(t, x) == t % 10 = 0 /\ Within4(t, x)

\* C25: on the statistics page, in every state reached by any interleaving of
\* submissions and responses, the totals agree with the rows displayed:
\* allSumConsumption is the 4-decimal rounding of the sum of their sum fields
\* and allAvgConsumption that of their avg fields, both 0 at the start.
C25_TotalsAgreeWithRows ==
    page = "Statistics" =>
        /\ IsRounding4(allSumConsumption, Sigma(measurements.rows, "sum"))
        /\ IsRounding4(allAvgConsumption, Sigma(measurements.rows, "avg"))
        /\ (measurements.rows = << >> => allSumConsumption = 0 /\ allAvgConsumption = 0)

\* the response of the first submission is handled after that of the second,
\* and its two rows and their totals are what is displayed
C25_Witness ==
    /\ page = "Statistics"
    /\ done = {1, 2}
    /\ ev.op = "statistics" /\ ev.seq = 1 /\ ev.response.kind = "ok"
    /\ Len(measurements.rows) = 2
    /\ allAvgConsumption = 100020

\* C26: a statistics submission whose response is not ok leaves measurements,
\* allAvgConsumption, allSumConsumption and assetName as they were, shows no
\* error message and ends with isLoading false: neither the step that issues the
\* request nor the step that handles the response changes them.
C26_NotOkFrame ==
    [][ /\ (page \in StatPages /\ ev'.op = "onSubmit") =>
             (measurements' = measurements /\ statVars' = statVars)
        /\ (page \in StatPages /\ ev'.op = "statistics" /\ ev'.response.kind = "notok") =>
             /\ measurements' = measurements
             /\ statVars' = statVars
             /\ toast' = Null
             /\ isLoading' = FALSE ]_vars

\* rows of asset "A" are displayed and a later response that is not ok has been handled
C26_Witness ==
    /\ page = "Statistics"
    /\ ev.op = "statistics" /\ ev.response.kind = "notok"
    /\ Len(measurements.rows) > 0
    /\ assetName = "A"
    /\ isLoading = FALSE

----
\* the channel list of the power meter with the given address
DeviceChannels(ip) ==
    IF Len(PowermeterOf(ip)) > 0 /\ PowermeterOf(ip)[1].id # 0
    THEN ChannelsOf(PowermeterOf(ip)[1].id)
    ELSE << >>

\* the displayed rows carry the names that the channel list chs gives them
NamedFrom(chs) ==
    /\ IsArray(measurements)
    /\ Len(measurements.rows) = Len(ev.body.rows)
    /\ \A k \in 1..Len(ev.body.rows) :
         IF FirstIndex(chs, ev.body.rows[k].channel) = 0
         THEN "channel_name" \notin DOMAIN measurements.rows[k]
         ELSE /\ "channel_name" \in DOMAIN measurements.rows[k]
              /\ measurements.rows[k].channel_name =
                   chs[FirstIndex(chs, ev.body.rows[k].channel)].channel_name

\* C24: the rows of a report response are named from the channel list that was
\* current when the submission was made, whatever channel fetch has resolved
\* since, and that list is the channel list of the device the report is for.
C24_NamedFromOwnDevice ==
    (ev.op = "updateTable" /\ IsArray(ev.body)) => NamedFrom(DeviceChannels(ev.ip))

\* a toast of severity error is shown
IsErrorToast(t) == t # Null /\ t[1] = "error"

\* C21: a network failure or a non-2xx response to a POST or a PUT of the
\* channel, asset and power meter forms is shown as an error: the step that
\* handles such a response leaves an error toast, and never starts the success
\* path of an update.
C21_FailureShownAsError ==
    [][ (ev'.op = "response" /\ ev'.method \in {"PUT", "POST"} /\ ev'.outcome # "ok")
        => IsErrorToast(toast') ]_vars

\* C27: while a create or update request of the power meter form or of the
\* asset form is in flight, the loading flag of the form is true.
C27_LoadingWhileRequestInFlight ==
    page \in {"Assets", "Powermeter"}
    => \A i \in 1..Len(inflight) :
          ( /\ inflight[i].stage = "fetch"
            /\ inflight[i].method \in {"PUT", "POST"}
            /\ inflight[i].entity \in {"assets", "power_meter"} )
          => isLoading = TRUE

\* the last request issued
LastRequest(reqs) == reqs[Len(reqs)]

\* the step issued exactly one request
IssuedOne == Len(requests') = Len(requests) + 1

\* C28: asset submission orders its requests. With a blank name it shows an
\* error, issues no request and leaves loading alone; with a name that has no
\* id it issues the name creation alone, and the asset request is issued when
\* the name creation has been answered and carries its lastID; with a name
\* that has an id it issues the asset request and no name creation; when the
\* name creation fails no asset request is issued and loading is cleared.
C28_AssetSubmissionOrder ==
    [][ /\ (page = "Assets" /\ ev'.op = "submit" /\ IsBlank(assetNameValue.name))
           => /\ IsErrorToast(toast')
              /\ requests' = requests
              /\ isLoading' = isLoading
        /\ (page = "Assets" /\ ev'.op = "submit" /\ ~IsBlank(assetNameValue.name)
              /\ assetNameValue.id = 0)
           => /\ IssuedOne
              /\ LastRequest(requests').entity = "asset_names"
        /\ (page = "Assets" /\ ev'.op = "submit" /\ ~IsBlank(assetNameValue.name)
              /\ assetNameValue.id # 0)
           => /\ IssuedOne
              /\ LastRequest(requests').entity = "assets"
              /\ LastRequest(requests').asset_name_id = assetNameValue.id
        /\ (ev'.op = "saveAssetName" /\ ev'.outcome = "ok")
           => /\ IssuedOne
              /\ LastRequest(requests').entity = "assets"
              /\ LastRequest(requests').asset_name_id = ev'.lastID
        /\ (ev'.op = "saveAssetName" /\ ev'.outcome # "ok")
           => /\ requests' = requests
              /\ isLoading' = FALSE ]_vars

\* the request a form submission of a row issues: PUT to the id of the row
\* when the id is truthy, POST without an id otherwise
IsMutationOf(req, entity, rowId) ==
    /\ req.entity = entity
    /\ req.id = rowId
    /\ req.method = IF rowId # 0 THEN "PUT" ELSE "POST"

\* C29 as stated: every form submission of the three editors issues exactly one
\* request in its step, the PUT or the POST of the edited row.
C29_ExactlyOneRequest ==
    [][ (ev'.op = "submit")
        => /\ IssuedOne
           /\ IsMutationOf(LastRequest(requests'), EntityOf(page), IdOf(editedRow)) ]_vars

\* C29 amended: a submission of the channel or power meter form issues exactly
\* one request, the PUT of the edited row when its id is truthy and a POST
\* otherwise. A submission of the asset form issues no request on a blank name,
\* that one request when the name has an id, and otherwise the name creation
\* alone, followed by that one request when the name creation has succeeded
\* and by nothing when it has failed. No other step issues a PUT or a POST.
C29_OneRequestPerSubmission ==
    [][ /\ (ev'.op = "submit" /\ page # "Assets")
           => /\ IssuedOne
              /\ IsMutationOf(LastRequest(requests'), EntityOf(page), IdOf(editedRow))
        /\ (ev'.op = "submit" /\ page = "Assets")
           => IF IsBlank(assetNameValue.name) THEN requests' = requests
              ELSE /\ IssuedOne
                   /\ IF assetNameValue.id = 0
                      THEN LastRequest(requests') = Request("POST", "asset_names", 0, 0)
                      ELSE IsMutationOf(LastRequest(requests'), "assets", IdOf(editedRow))
        /\ (ev'.op = "saveAssetName")
           => IF ev'.outcome = "ok"
              THEN /\ IssuedOne
                   /\ \E i \in 1..Len(inflight) :
                         /\ inflight[i].stage = "name"
                         /\ IsMutationOf(LastRequest(requests'), "assets", inflight[i].rowId)
              ELSE requests' = requests
        /\ (ev'.op \notin {"submit", "saveAssetName", "accept"}) => requests' = requests
        /\ (ev'.op = "accept")
           => \A k \in Len(requests) + 1 .. Len(requests') : requests'[k].method = "DELETE" ]_vars

\* a row with an id was modified under a new asset name: the name creation and
\* then the PUT of that row have been issued
C29_Witness ==
    /\ page = "Assets"
    /\ ev.op = "saveAssetName"
    /\ ev.outcome = "ok"
    /\ Len(requests) = 2
    /\ requests[1].entity = "asset_names"
    /\ requests[2].method = "PUT"
    /\ requests[2].id = 1

\* C30: on the channels page, when updatePage has finished after a create, an
\* update or a delete, selectedRow is cleared and editedRow is the default row,
\* so Modify and Delete are disabled; and a DELETE is issued only by accepting
\* the confirmation, for the row selected at that time.
C30_SelectionClearedAfterUpdate ==
    [][ /\ (page = "Channels" /\ ev'.op = "updatePage")
           => /\ selectedRow' = Undefined
              /\ editedRow' = [power_meter_id |-> -1, channel |-> 1, channel_name |-> "",
                               enabled |-> FALSE]
              /\ ~HasId(selectedRow')
        /\ (page = "Channels" /\ Len(requests') > Len(requests)
              /\ LastRequest(requests').method = "DELETE")
           => /\ ev'.op = "accept"
              /\ confirmDialogVisible
              /\ HasId(selectedRow)
              /\ LastRequest(requests').id = selectedRow.id ]_vars

\* the deletion of the selected row 1 has been fully handled
C30_Witness ==
    /\ page = "Channels"
    /\ ev.op = "updatePage"
    /\ ev.method = "DELETE"
    /\ requests = <<Request("DELETE", "channels", 1, 0)>>
    /\ selectedRow = Undefined
    /\ inflight = << >>

====
